---- MODULE Spec2Model ----
(***************************************************************************)
(* Model of dwdGribExtractor: ICON_D2 (src/dwdGribExtractor/icon.py) and   *)
(* the route resolver get_values_for_route (src/app/utils.py).             *)
(*                                                                         *)
(* Spec      : one collectData batch on one ICON_D2 instance, sequential   *)
(*             or with a worker pool, against a remote source whose        *)
(*             answers (HTTP status, payload, grib content) are chosen     *)
(*             nondeterministically at each fetch / extraction.            *)
(* SpecPlan  : the pure planning functions getCurrentRun,                  *)
(*             createDownloadUrl and the horizon of get_values_for_route,  *)
(*             applied to inputs drawn from bounded sets.                  *)
(***************************************************************************)
EXTENDS Integers, Sequences, FiniteSets, TLC

VARIABLES
    self,       \* the ICON_D2 instance: [tmpFp, forecastHours]
    tmpFpArg,   \* the tmpFp argument the constructor was called with
    varList,    \* collectData's varList, as the sequence of its keys
    cores,      \* collectData's cores argument
    now,        \* wall clock read by createDownloadUrl during the batch
    pcMain,     \* position of collectData
    pc,         \* pc[i]: position of mainDataCollector for varList[i]
    k,          \* k[i]: index of the url task i is working on
    urls,       \* urls[i]: the list createDownloadUrl returned to task i
    data,       \* data[i]: the pd.Series of task i, a set of [dt, v]
    r,          \* r[i]: what the last downloadAndExtractBzFile call of task i did
    hist,       \* hist[i]: per finished artifact, what happened to it
    finished,   \* task ids in the order the tasks ended
    result,     \* collectData's result list
    table,      \* collectData's DataFrame
    fs,         \* files in the scratch directories
    ppc,        \* SpecPlan: which planning function was applied
    pnow,       \* SpecPlan: the clock, [day, hour, minute]
    phours,     \* SpecPlan: forecastHours of the instance
    proute,     \* SpecPlan: requested times of the route, minutes after now
    prun,       \* SpecPlan: result of getCurrentRun
    purls,      \* SpecPlan: result of createDownloadUrl
    phorizon    \* SpecPlan: forecast_hours computed by get_values_for_route

mainVars == <<self, tmpFpArg, varList, cores, now, pcMain, pc, k, urls, data,
              r, hist, finished, result, table, fs>>
planVars == <<ppc, pnow, phours, proute, prun, purls, phorizon>>
vars == <<mainVars, planVars>>

(***************************************************************************)
(* Bounds of the model.                                                    *)
(***************************************************************************)
MaxHours == 2        \* largest forecastHours of a collected batch
MaxPlanHours == 11   \* largest explicit forecastHours given to createDownloadUrl
MaxLead == 4         \* largest requested lead of a route point, in half hours

(***************************************************************************)
(* Program constants.                                                      *)
(***************************************************************************)
None == "None"
NoneInt == << >>     \* None where an int is expected; an int n is <<n>>
Unset == "<no attribute>"
DefaultTmpFp == "tmp/icond2/"
IconCacheDir == "/tmp/icon_cache"
DefaultHours == 49
Src == "https://opendata.dwd.de/weather/nwp/icon-d2/grib/"
Runs == {"00", "03", "06", "09", "12", "15", "18", "21"}
VarKeys == {"t_2m", "tot_prec"}

(***************************************************************************)
(* ICON_D2.__init__: with tmpFp None the default directory is stored in    *)
(* _tmpFp; otherwise the argument is stored in _forecastHours (line 46)    *)
(* and _tmpFp is never assigned.  Line 48 then stores forecastHours.       *)
(***************************************************************************)
Construct(tmpFp, forecastHours) ==
    LET s1 == IF tmpFp = None
              THEN [tmpFp |-> DefaultTmpFp, forecastHours |-> Unset]
              ELSE [tmpFp |-> Unset, forecastHours |-> tmpFp]
    IN  [s1 EXCEPT !.forecastHours = forecastHours]

HasTmpFp(s) == s.tmpFp # Unset

(***************************************************************************)
(* ICON_D2.getCurrentRun: a chain of independent ifs, the last one wins.   *)
(***************************************************************************)
getCurrentRun(h) ==
    LET r0 == "00"
        r1 == IF h >= 2 THEN "00" ELSE r0
        r2 == IF h >= 5 THEN "03" ELSE r1
        r3 == IF h >= 8 THEN "06" ELSE r2
        r4 == IF h >= 11 THEN "09" ELSE r3
        r5 == IF h >= 14 THEN "12" ELSE r4
        r6 == IF h >= 17 THEN "15" ELSE r5
        r7 == IF h >= 20 THEN "18" ELSE r6
        r8 == IF h >= 23 /\ h < 2 THEN "21" ELSE r7
    IN  r8

(***************************************************************************)
(* str(h).zfill(2): decimal digits, most significant first, left-padded    *)
(* with zeros to width 2 (longer strings are left alone).                  *)
(***************************************************************************)
RECURSIVE Str(_)
Str(n) == IF n < 10 THEN <<n>> ELSE Str(n \div 10) \o <<n % 10>>

RECURSIVE ZFill(_, _)
ZFill(s, w) == IF Len(s) >= w THEN s ELSE ZFill(<<0>> \o s, w)

(***************************************************************************)
(* ICON_D2.createDownloadUrl.  A url is the tuple of the values the fixed  *)
(* template is filled with: base, run, variable, date stamp and the        *)
(* zero-padded hour.                                                       *)
(***************************************************************************)
HoursOf(forecastHours) ==
    IF forecastHours = NoneInt THEN DefaultHours ELSE forecastHours[1]

createDownloadUrlFromOne(forecastHours, var, nowUtc) ==
    [i \in 1..HoursOf(forecastHours) |->
        [src |-> Src, run |-> getCurrentRun(nowUtc.hour), var |-> var,
         ds |-> nowUtc.day, h |-> ZFill(Str(i), 2)]]

createDownloadUrl(forecastHours, var, nowUtc) ==
    LET currentRun == getCurrentRun(nowUtc.hour)
        urlDate == nowUtc.day
        hours == HoursOf(forecastHours)
    IN  [i \in 1..hours |->
            [src |-> Src, run |-> currentRun, var |-> var, ds |-> urlDate,
             h |-> ZFill(Str(i - 1), 2)]]

(***************************************************************************)
(* The remote source.  The file published for one lead hour holds          *)
(* StepsPerFile(var) steps (a single scalar step, or a sequence of         *)
(* sub-hourly steps); its time is the run's initialisation and its steps   *)
(* are offsets from it.  Times are minutes since day 0, 00:00 UTC.         *)
(***************************************************************************)
StepsPerFile(var) == IF var = "tot_prec" THEN 2 ELSE 1

RunInt(run) ==
    CASE run = "00" -> 0 [] run = "03" -> 3 [] run = "06" -> 6
      [] run = "09" -> 9 [] run = "12" -> 12 [] run = "15" -> 15
      [] run = "18" -> 18 [] run = "21" -> 21

RECURSIVE ParseInt(_)
ParseInt(s) ==
    IF Len(s) = 0 THEN 0 ELSE 10 * ParseInt(SubSeq(s, 1, Len(s) - 1)) + s[Len(s)]

RunInit(day, run) == (day * 24 + RunInt(run)) * 60

FileTime(url) == RunInit(url.ds, url.run)

FileStep(url, s) ==
    ParseInt(url.h) * 60 + (s - 1) * (60 \div StepsPerFile(url.var))

GridValue(var, dt) == ((dt \div 30) % 3) + (IF var = "t_2m" THEN 0 ELSE 10)

(***************************************************************************)
(* mainDataCollector lines 244-246: the scratch path of a url is the       *)
(* url's base name without its last suffix (.bz2), under self._tmpFp.      *)
(* The base name carries the date stamp, the run, the hour and the         *)
(* variable.                                                               *)
(***************************************************************************)
TmpFnHourOnly(url) == [ds |-> url.ds, run |-> url.run, h |-> url.h, var |-> ""]

TmpFn(url) == [ds |-> url.ds, run |-> url.run, h |-> url.h, var |-> url.var]

TmpFp(s, url) == [dir |-> s.tmpFp, fn |-> TmpFn(url)]

(***************************************************************************)
(* Scratch files: [path, kind, owner].  kind "grib" is a decoded grib      *)
(* file, "junk" a file cfgrib cannot open (empty or not a grib), "idx"     *)
(* the index file cfgrib writes next to a grib file it opened.             *)
(***************************************************************************)
FilesAt(files, path) == {f \in files : f.path = path /\ f.kind # "idx"}

Exists(files, path) == FilesAt(files, path) # {}

(***************************************************************************)
(* downloadAndExtractBzFile.  status is what the remote source did:        *)
(*   "200"       status 200, payload decompresses to a grib file           *)
(*   "decode"    status 200, decompress raises (file already opened 'wb')  *)
(*   "non200"    any other status                                          *)
(*   "transport" requests.get raises                                       *)
(* The call returns None in every case and prints only in the except       *)
(* branch.                                                                 *)
(***************************************************************************)
Statuses == {"200", "decode", "non200", "transport"}

Raises(status) == status \in {"decode", "transport"}

OpensDestAnyStatus(status) == status \in {"200", "decode", "non200"}

OpensDest(status) == status \in {"200", "decode"}

Written(status) == IF status = "200" THEN "grib" ELSE "junk"

downloadAndExtractBzFile(files, status, destFp, who) ==
    [files   |-> IF OpensDest(status)
                 THEN (files \ FilesAt(files, destFp))
                      \cup {[path |-> destFp, kind |-> Written(status), owner |-> who]}
                 ELSE files,
     printed |-> Raises(status),
     ret     |-> None,
     raised  |-> FALSE]

(***************************************************************************)
(* extractValuesFromGrib.  stop is the number of steps handled before an   *)
(* exception (stop = number of steps: none).  open_dataset raises on a     *)
(* missing or junk file; on a grib file it leaves an index file.  Each     *)
(* handled step stores data.loc[dt] = value.  os.remove(fp) is the last    *)
(* statement and runs only when nothing raised before it.                  *)
(***************************************************************************)
Insert(series, dt, v) == {e \in series : e.dt # dt} \cup {[dt |-> dt, v |-> v]}

RECURSIVE InsertSteps(_, _, _)
InsertSteps(series, url, n) ==
    IF n = 0 THEN series
    ELSE Insert(InsertSteps(series, url, n - 1),
                FileTime(url) + FileStep(url, n),
                GridValue(url.var, FileTime(url) + FileStep(url, n)))

Opens(files, fp) == \E f \in FilesAt(files, fp) : f.kind = "grib"

Completed(opened, stop, steps) == opened /\ stop = steps

RemovesFileFinally(completed) == TRUE

RemovesFile(completed) == completed

extractValuesFromGrib(files, fp, url, series, stop, who) ==
    LET opened == Opens(files, fp)
        steps  == StepsPerFile(url.var)
        done   == IF opened THEN stop ELSE 0
        completed == Completed(opened, stop, steps)
        withIdx == IF opened
                   THEN files \cup {[path |-> fp, kind |-> "idx", owner |-> who]}
                   ELSE files
    IN  [files  |-> IF RemovesFile(completed)
                    THEN withIdx \ FilesAt(withIdx, fp)
                    ELSE withIdx,
         series |-> InsertSteps(series, url, done),
         raised |-> ~ completed,
         ins    |-> done]

(***************************************************************************)
(* collectData lines 318-323: data[key] = val for each result in order.    *)
(* A frame whose index is still empty takes the index of the first         *)
(* non-empty series assigned to it; every later series is aligned to the   *)
(* frame's index (labels outside it are dropped, missing ones are NaN).    *)
(***************************************************************************)
EmptyTable == [index |-> {}, cols |-> {}, cells |-> {}, tz |-> None]

RECURSIVE MergeTable(_)
MergeTable(res) ==
    IF Len(res) = 0 THEN EmptyTable
    ELSE LET t   == MergeTable(SubSeq(res, 1, Len(res) - 1))
             x   == res[Len(res)]
             idx == IF t.index = {} THEN {e.dt : e \in x.val} ELSE t.index
         IN  [index |-> idx,
              cols  |-> t.cols \cup {x.key},
              cells |-> {c \in t.cells : c.var # x.key}
                        \cup {[var |-> x.key, dt |-> e.dt, v |-> e.v] :
                                e \in {e \in x.val : e.dt \in idx}},
              tz    |-> None]

(***************************************************************************)
(* The order of collectData's result list over the tasks: the loop of      *)
(* lines 307-309 appends in varList order, and pool.map (line 314)         *)
(* returns its results in the order of its input.                          *)
(***************************************************************************)
ResultOrderCompletion(n, done) == done

ResultOrder(n, done) == [j \in 1..n |-> j]

(***************************************************************************)
(* collectData lines 326-327: glob "{tmpFp}/*grib*".  Every scratch name   *)
(* (grib2 file or its index) contains "grib".                              *)
(***************************************************************************)
GlobOnlyIdx(files, dir) == {f \in files : f.path.dir = dir /\ f.kind = "idx"}

GlobGrib(files, dir) == {f \in files : f.path.dir = dir}

(***************************************************************************)
(* pool.map returns (or raises) once every task has ended; the sequential  *)
(* loop has no task left when the last one has returned.                   *)
(***************************************************************************)
Ended(i) == pc[i] \in {"done", "raised"}

Joined == \A i \in DOMAIN pc : Ended(i)

(***************************************************************************)
(* State of SpecPlan while Spec runs, and of Spec while SpecPlan runs.     *)
(***************************************************************************)
PlanIdle ==
    /\ ppc = "off" /\ pnow = [day |-> 0, hour |-> 0, minute |-> 0]
    /\ phours = NoneInt /\ proute = << >> /\ prun = None /\ purls = << >>
    /\ phorizon = 0

NoCall == [status |-> None, printed |-> FALSE, ret |-> None, raised |-> FALSE]

VarLists == {<<"t_2m">>, <<"t_2m", "tot_prec">>, <<"tot_prec", "t_2m">>}

Clock == {[day |-> 1, hour |-> 13]}

CoreArgs == {NoneInt, <<2>>}

Init ==
    /\ \E t \in {None, IconCacheDir}, fh \in 0..MaxHours :
          /\ tmpFpArg = t
          /\ self = Construct(t, <<fh>>)
    /\ varList = << >> /\ cores = NoneInt /\ now = [day |-> 0, hour |-> 0]
    /\ pcMain = "idle"
    /\ pc = << >> /\ k = << >> /\ urls = << >> /\ data = << >>
    /\ r = << >> /\ hist = << >> /\ finished = << >> /\ result = << >>
    /\ table = EmptyTable
    /\ fs = {}
    /\ PlanIdle

(***************************************************************************)
(* collectData is called (line 301).                                       *)
(***************************************************************************)
CollectData(vl, c, t) ==
    /\ pcMain = "idle"
    /\ varList' = vl /\ cores' = c /\ now' = t
    /\ pcMain' = "collect"
    /\ pc' = [i \in 1..Len(vl) |-> "wait"]
    /\ k' = [i \in 1..Len(vl) |-> 0]
    /\ urls' = [i \in 1..Len(vl) |-> << >>]
    /\ data' = [i \in 1..Len(vl) |-> {}]
    /\ r' = [i \in 1..Len(vl) |-> NoCall]
    /\ hist' = [i \in 1..Len(vl) |-> << >>]
    /\ UNCHANGED <<self, tmpFpArg, finished, result, table, fs, planVars>>

(***************************************************************************)
(* mainDataCollector lines 234-240: the task for varList[i] starts.  In    *)
(* the sequential loop a task starts when the one before it has returned;  *)
(* in the pool every task may start at once.                               *)
(***************************************************************************)
StartTask(i) ==
    /\ pcMain = "collect" /\ pc[i] = "wait"
    /\ cores = NoneInt => \A j \in 1..(i - 1) : pc[j] = "done"
    /\ LET u == createDownloadUrl(self.forecastHours, varList[i], now)
       IN  /\ urls' = [urls EXCEPT ![i] = u]
           /\ IF Len(u) = 0
              THEN /\ pc' = [pc EXCEPT ![i] = "done"]
                   /\ finished' = Append(finished, i)
                   /\ k' = k
              ELSE /\ pc' = [pc EXCEPT ![i] = "fetch"]
                   /\ finished' = finished
                   /\ k' = [k EXCEPT ![i] = 1]
    /\ UNCHANGED <<self, tmpFpArg, varList, cores, now, pcMain, data, r, hist,
                   result, table, fs, planVars>>

(***************************************************************************)
(* mainDataCollector line 246 on an instance without _tmpFp:               *)
(* AttributeError, outside every try, ends the task.                       *)
(***************************************************************************)
PathError(i) ==
    /\ pcMain = "collect" /\ pc[i] = "fetch"
    /\ ~ HasTmpFp(self)
    /\ pc' = [pc EXCEPT ![i] = "raised"]
    /\ finished' = Append(finished, i)
    /\ UNCHANGED <<self, tmpFpArg, varList, cores, now, pcMain, k, urls, data,
                   r, hist, result, table, fs, planVars>>

(***************************************************************************)
(* mainDataCollector lines 244-249: scratch path, then the download.       *)
(***************************************************************************)
Download(i, status) ==
    /\ pcMain = "collect" /\ pc[i] = "fetch"
    /\ HasTmpFp(self)
    /\ LET dest == TmpFp(self, urls[i][k[i]])
           res  == downloadAndExtractBzFile(fs, status, dest, i)
       IN  /\ fs' = res.files
           /\ r' = [r EXCEPT ![i] = [status |-> status, printed |-> res.printed,
                                     ret |-> res.ret, raised |-> res.raised]]
    /\ pc' = [pc EXCEPT ![i] = "extract"]
    /\ UNCHANGED <<self, tmpFpArg, varList, cores, now, pcMain, k, urls, data,
                   hist, finished, result, table, planVars>>

(***************************************************************************)
(* mainDataCollector lines 251-255 and the loop's next iteration: the      *)
(* extraction, whose exception is caught and printed.  stop is how many    *)
(* steps of the file are handled before something raises.                  *)
(***************************************************************************)
KindAt(files, path) ==
    IF \E f \in FilesAt(files, path) : f.kind = "grib" THEN "grib"
    ELSE IF Exists(files, path) THEN "junk" ELSE "none"

Stops(files, fp, url) ==
    IF Opens(files, fp) THEN 0..StepsPerFile(url.var) ELSE {0}

AllStops == UNION {0..StepsPerFile(v) : v \in VarKeys}

Extract(i, stop) ==
    /\ pcMain = "collect" /\ pc[i] = "extract"
    /\ LET url == urls[i][k[i]]
           fp  == TmpFp(self, url)
           res == extractValuesFromGrib(fs, fp, url, data[i], stop, i)
       IN  /\ stop \in Stops(fs, fp, url)
           /\ fs' = res.files
           /\ data' = [data EXCEPT ![i] = res.series]
           /\ hist' = [hist EXCEPT ![i] =
                         Append(@, [file |-> KindAt(fs, fp), ins |-> res.ins,
                                    ok |-> ~ res.raised,
                                    left |-> Exists(res.files, fp)])]
    /\ r' = [r EXCEPT ![i] = NoCall]
    /\ IF k[i] = Len(urls[i])
       THEN /\ pc' = [pc EXCEPT ![i] = "done"]
            /\ finished' = Append(finished, i)
            /\ k' = k
       ELSE /\ pc' = [pc EXCEPT ![i] = "fetch"]
            /\ finished' = finished
            /\ k' = [k EXCEPT ![i] = @ + 1]
    /\ UNCHANGED <<self, tmpFpArg, varList, cores, now, pcMain, urls, result,
                   table, planVars>>

(***************************************************************************)
(* An exception of a task leaves collectData: at once from the loop of     *)
(* lines 307-309, from pool.map once the pool's tasks have ended.          *)
(***************************************************************************)
Propagate ==
    /\ pcMain = "collect"
    /\ \E i \in DOMAIN pc : pc[i] = "raised"
    /\ cores = NoneInt \/ Joined
    /\ pcMain' = "raised"
    /\ UNCHANGED <<self, tmpFpArg, varList, cores, now, pc, k, urls, data, r,
                   hist, finished, result, table, fs, planVars>>

(***************************************************************************)
(* collectData lines 305-323: every task has returned; the result list     *)
(* is merged into the frame.                                               *)
(***************************************************************************)
Assemble ==
    /\ pcMain = "collect"
    /\ \A i \in DOMAIN pc : pc[i] = "done"
    /\ LET n   == Len(varList)
           ord == ResultOrder(n, finished)
           res == [j \in 1..n |-> [key |-> varList[ord[j]], val |-> data[ord[j]]]]
       IN  /\ result' = res
           /\ table' = MergeTable(res)
    /\ pcMain' = "sweep"
    /\ UNCHANGED <<self, tmpFpArg, varList, cores, now, pc, k, urls, data, r,
                   hist, finished, fs, planVars>>

(***************************************************************************)
(* collectData lines 326-333: the sweep of the scratch directory.  On an   *)
(* instance without _tmpFp line 326 raises AttributeError.                 *)
(***************************************************************************)
SweepError ==
    /\ pcMain = "sweep" /\ ~ HasTmpFp(self)
    /\ pcMain' = "raised"
    /\ UNCHANGED <<self, tmpFpArg, varList, cores, now, pc, k, urls, data, r,
                   hist, finished, result, table, fs, planVars>>

Sweep ==
    /\ pcMain = "sweep" /\ HasTmpFp(self)
    /\ Joined
    /\ fs' = fs \ GlobGrib(fs, self.tmpFp)
    /\ pcMain' = "localize"
    /\ UNCHANGED <<self, tmpFpArg, varList, cores, now, pc, k, urls, data, r,
                   hist, finished, result, table, planVars>>

(***************************************************************************)
(* collectData lines 335-337: data.index.tz_localize("UTC").  A frame      *)
(* that received no entry has no datetime index and the call raises.       *)
(***************************************************************************)
LocalizeError ==
    /\ pcMain = "localize" /\ table.index = {}
    /\ pcMain' = "raised"
    /\ UNCHANGED <<self, tmpFpArg, varList, cores, now, pc, k, urls, data, r,
                   hist, finished, result, table, fs, planVars>>

Localize ==
    /\ pcMain = "localize" /\ table.index # {}
    /\ table' = [table EXCEPT !.tz = "UTC"]
    /\ pcMain' = "returned"
    /\ UNCHANGED <<self, tmpFpArg, varList, cores, now, pc, k, urls, data, r,
                   hist, finished, result, fs, planVars>>

Next ==
    \/ \E vl \in VarLists, c \in CoreArgs, t \in Clock : CollectData(vl, c, t)
    \/ \E i \in DOMAIN pc : StartTask(i)
    \/ \E i \in DOMAIN pc : PathError(i)
    \/ \E i \in DOMAIN pc, status \in Statuses : Download(i, status)
    \/ \E i \in DOMAIN pc, stop \in AllStops : Extract(i, stop)
    \/ Propagate
    \/ Assemble
    \/ SweepError
    \/ Sweep
    \/ LocalizeError
    \/ Localize

Spec == Init /\ [][Next]_vars

(***************************************************************************)
(* get_values_for_route lines 44-57.  Requested times are given as         *)
(* minutes after now; forecast_hours is the ceiling, in hours, of the      *)
(* absolute distance between now and the latest requested time.  The       *)
(* forecast object is then asked for that many lead hours of the run       *)
(* createDownloadUrl selects.                                              *)
(***************************************************************************)
Abs(x) == IF x < 0 THEN 0 - x ELSE x

MaxOf(seq) == CHOOSE m \in {seq[i] : i \in DOMAIN seq} :
                  \A i \in DOMAIN seq : seq[i] <= m

CeilHours(minutes) == (minutes + 59) \div 60

forecast_hours(route) == CeilHours(Abs(MaxOf(route)))

NowAbs(t) == (t.day * 24 + t.hour) * 60 + t.minute

ValidTimes(us) ==
    {FileTime(us[i]) + FileStep(us[i], 1) : i \in DOMAIN us}

(***************************************************************************)
(* SpecPlan: the planning functions applied to bounded inputs.             *)
(***************************************************************************)
MainIdle ==
    /\ tmpFpArg = None /\ self = Construct(None, NoneInt)
    /\ varList = << >> /\ cores = NoneInt /\ now = [day |-> 0, hour |-> 0]
    /\ pcMain = "off"
    /\ pc = << >> /\ k = << >> /\ urls = << >> /\ data = << >>
    /\ r = << >> /\ hist = << >> /\ finished = << >> /\ result = << >>
    /\ table = EmptyTable
    /\ fs = {}

PlanClock == [day : {1}, hour : 0..23, minute : {0, 30}]

PlanHours == {NoneInt} \cup {<<n>> : n \in 0..MaxPlanHours}

Leads == {30 * n : n \in 0..MaxLead}

Routes == {<<a>> : a \in Leads} \cup {<<a, b>> : a \in Leads, b \in Leads}

InitPlan ==
    /\ MainIdle
    /\ ppc = "start"
    /\ pnow \in PlanClock
    /\ phours = NoneInt /\ proute = << >> /\ prun = None /\ purls = << >>
    /\ phorizon = 0

CallGetCurrentRun ==
    /\ ppc = "start"
    /\ prun' = getCurrentRun(pnow.hour)
    /\ ppc' = "run"
    /\ UNCHANGED <<mainVars, pnow, phours, proute, purls, phorizon>>

CallCreateDownloadUrl(fh, var) ==
    /\ ppc = "start"
    /\ phours' = fh
    /\ purls' = createDownloadUrl(fh, var, pnow)
    /\ ppc' = "urls"
    /\ UNCHANGED <<mainVars, pnow, proute, prun, phorizon>>

CallGetValuesForRoute(variable, route) ==
    /\ ppc = "start"
    /\ proute' = route
    /\ phorizon' = forecast_hours(route)
    /\ purls' = createDownloadUrl(<<forecast_hours(route)>>, variable, pnow)
    /\ ppc' = "route"
    /\ UNCHANGED <<mainVars, pnow, phours, prun>>

NextPlan ==
    \/ CallGetCurrentRun
    \/ \E fh \in PlanHours, var \in VarKeys : CallCreateDownloadUrl(fh, var)
    \/ \E route \in Routes : CallGetValuesForRoute("t_2m", route)

SpecPlan == InitPlan /\ [][NextPlan]_vars

(***************************************************************************)
(*                              Claims                                     *)
(***************************************************************************)
RunTable(h) ==
    CASE h \in 2..4 -> "00" [] h \in 5..7 -> "03" [] h \in 8..10 -> "06"
      [] h \in 11..13 -> "09" [] h \in 14..16 -> "12" [] h \in 17..19 -> "15"
      [] h \in 20..22 -> "18" [] OTHER -> "21"

\* C1: for every UTC hour 0..23 getCurrentRun returns one of the eight run
\* identifiers and the result equals the step table ([2,5)->00, ...,
\* [20,23)->18, hours 23, 0 and 1 -> 21).
C1_CurrentRunMatchesTable ==
    ppc = "run" => prun \in Runs /\ prun = RunTable(pnow.hour)

Names(i) == {TmpFn(urls[i][j]) : j \in DOMAIN urls[i]}

FetchFailed(i) == {j \in DOMAIN hist[i] : hist[i][j].file # "grib"}

ExtractFailed(i) ==
    {j \in DOMAIN hist[i] : hist[i][j].file = "grib" /\ ~ hist[i][j].ok}

TimesOf(url) ==
    {FileTime(url) + FileStep(url, s) : s \in 1..StepsPerFile(url.var)}

\* C2: when exactly one of the N fetches of a mainDataCollector call fails,
\* the call processes all N artifacts, no exception ends it, the series has
\* exactly N-1 entries (fewer only if an extraction failed too) and no entry
\* for the lead hour whose fetch failed.
C2_PartialFailureRobust ==
    \A i \in DOMAIN pc :
        /\ pc[i] # "raised"
        /\ pc[i] = "done" => Len(hist[i]) = Len(urls[i])
        /\ pc[i] = "done" /\ Cardinality(FetchFailed(i)) = 1 =>
              /\ \/ Cardinality(data[i]) = Len(urls[i]) - 1
                 \/ /\ Cardinality(data[i]) < Len(urls[i]) - 1
                    /\ ExtractFailed(i) # {}
              /\ \A j \in FetchFailed(i), e \in data[i] :
                    e.dt \notin TimesOf(urls[i][j])

CollectEnded == pcMain \in {"returned", "raised"}

\* C3: whenever collectData ends, by return or by exception, no scratch
\* file named after an artifact of the batch remains in the scratch
\* directory.
C3_ScratchClean ==
    CollectEnded =>
        \A f \in fs, i \in DOMAIN urls : f.path.fn \notin Names(i)

C3_Witness ==
    /\ pcMain = "returned"
    /\ \E i \in DOMAIN hist : \E j \in DOMAIN hist[i] : hist[i][j].left
    /\ \E i \in DOMAIN hist : \E j \in DOMAIN hist[i] : hist[i][j].ok
    /\ fs = {}

\* C4 (as claimed): when extractValuesFromGrib has returned or raised, the
\* file at its path no longer exists, whatever the outcome.
C4_DeletedOnBothOutcomes ==
    \A i \in DOMAIN hist : \A j \in DOMAIN hist[i] : ~ hist[i][j].left

\* C4 (amended): extractValuesFromGrib deletes the file at its path exactly
\* when the extraction succeeded; when it failed (opening, selecting or
\* inserting) a file present at the path is still there when the call ends.
C4_DeletedOnlyOnSuccess ==
    \A i \in DOMAIN hist : \A j \in DOMAIN hist[i] :
        /\ hist[i][j].ok => ~ hist[i][j].left
        /\ ~ hist[i][j].ok => (hist[i][j].left <=> hist[i][j].file # "none")

C4_Witness ==
    \E i \in DOMAIN hist : \E j \in DOMAIN hist[i] :
        /\ hist[i][j].file = "grib" /\ ~ hist[i][j].ok /\ hist[i][j].left
        /\ \E m \in DOMAIN hist[i] : hist[i][m].ok /\ ~ hist[i][m].left

JustFetched(i) == pc[i] = "extract"

DestOf(i) == TmpFp(self, urls[i][k[i]])

\* C5 (as claimed): on a non-success status or a transport failure
\* downloadAndExtractBzFile does not raise, gives a failure signal (returned
\* or printed) and leaves no file at destPath.
C5_FailureSignalled ==
    \A i \in DOMAIN pc :
        JustFetched(i) /\ r[i].status \in {"non200", "transport"} =>
            /\ ~ r[i].raised
            /\ r[i].printed \/ r[i].ret # None
            /\ ~ Exists(fs, DestOf(i))

\* C5 (amended): on a non-success status or a transport failure
\* downloadAndExtractBzFile does not raise and creates no file at destPath;
\* it returns None, and it prints a message for a transport failure but
\* nothing for a non-success status.
C5_FailureContained ==
    \A i \in DOMAIN pc :
        JustFetched(i) /\ r[i].status \in {"non200", "transport"} =>
            /\ ~ r[i].raised
            /\ r[i].ret = None
            /\ r[i].printed <=> r[i].status = "transport"
            /\ ~ Exists(fs, DestOf(i))

C5_Witness ==
    \E i \in DOMAIN pc :
        /\ JustFetched(i) /\ r[i].status = "non200"
        /\ ~ r[i].printed /\ ~ Exists(fs, DestOf(i))
        /\ \E j \in DOMAIN hist[i] : hist[i][j].file = "none"

ScratchDir == IF tmpFpArg = None THEN DefaultTmpFp ELSE tmpFpArg

\* C6: scratch files are kept under the directory the caller supplied (the
\* default one when none is supplied), and an instance constructed with a
\* supplied directory is able to run its collection.
C6_ScratchUnderSuppliedDir ==
    /\ \A f \in fs : f.path.dir = ScratchDir
    /\ \A i \in DOMAIN pc : JustFetched(i) => DestOf(i).dir = ScratchDir
    /\ tmpFpArg # None => \A i \in DOMAIN pc : pc[i] # "raised"

\* C7: createDownloadUrl returns exactly hourCount urls (49 when the hour
\* count is None), in ascending lead-hour order 0..hourCount-1, the hour
\* written zero-padded to two digits, all with the same base, run, date
\* stamp and variable, any two differing in the hour segment only.
C7_UrlList ==
    ppc = "urls" =>
        /\ Len(purls) = (IF phours = NoneInt THEN 49 ELSE phours[1])
        /\ \A i \in DOMAIN purls :
              /\ ParseInt(purls[i].h) = i - 1
              /\ i - 1 < 100 => Len(purls[i].h) = 2
        /\ \A i \in DOMAIN purls, j \in DOMAIN purls :
              /\ [purls[i] EXCEPT !.h = purls[j].h] = purls[j]
              /\ i # j => purls[i].h # purls[j].h

C7_Witness ==
    /\ ppc = "urls" /\ phours = <<3>> /\ Len(purls) = 3
    /\ purls[1].h = <<0, 0>> /\ purls[2].h = <<0, 1>> /\ purls[3].h = <<0, 2>>

Active(i) == pc[i] \in {"fetch", "extract"}

\* C8: no two tasks of a batch ever work on the same scratch file name: the
\* names of different tasks are disjoint, tasks active at the same time
\* have different current files, every scratch file was written by the
\* task whose url names it, and the sweep is reached only when every task
\* has ended.
C8_NoSharedScratchPath ==
    /\ \A i \in DOMAIN pc, j \in DOMAIN pc :
          i # j => /\ Names(i) \cap Names(j) = {}
                   /\ Active(i) /\ Active(j) => DestOf(i) # DestOf(j)
    /\ \A f \in fs : f.path.fn \in Names(f.owner)
    /\ pcMain \in {"sweep", "localize", "returned"} =>
          \A i \in DOMAIN pc : Ended(i)

C8_Witness ==
    /\ cores # NoneInt /\ Len(varList) = 2
    /\ pc[1] = "extract" /\ pc[2] = "extract"
    /\ Exists(fs, DestOf(1)) /\ Exists(fs, DestOf(2))

RECURSIVE SeqSeries(_, _)
SeqSeries(i, n) ==
    IF n = 0 THEN {}
    ELSE IF hist[i][n].file = "grib"
         THEN InsertSteps(SeqSeries(i, n - 1), urls[i][n], hist[i][n].ins)
         ELSE SeqSeries(i, n - 1)

SeqResult ==
    [j \in 1..Len(varList) |->
        [key |-> varList[j], val |-> SeqSeries(j, Len(hist[j]))]]

Merged == pcMain \in {"sweep", "localize", "returned"}

\* C9: for the same variable list and the same fetch and extraction
\* outcome of every artifact, the table collectData builds with a worker
\* pool holds the cells the sequential loop builds: the merge, in varList
\* order, of each variable's series accumulated url by url.
C9_ParallelEqualsSequential ==
    Merged =>
        /\ table.cells = MergeTable(SeqResult).cells
        /\ table.index = MergeTable(SeqResult).index
        /\ table.cols = {varList[j] : j \in DOMAIN varList}

C9_Witness ==
    /\ pcMain = "returned" /\ cores # NoneInt
    /\ finished = <<2, 1>>
    /\ FetchFailed(1) # {} /\ ExtractFailed(2) # {}
    /\ \E c \in table.cells : c.var = varList[1]
    /\ \E c \in table.cells : c.var = varList[2]

\* C10: the horizon get_values_for_route computes covers the route: when
\* the latest requested time is at or after now, the lead hours
\* 0..horizon-1 of the selected run include a valid time at or after the
\* latest requested time.
C10_HorizonCovers ==
    ppc = "route" /\ MaxOf(proute) >= 0 =>
        \E t \in ValidTimes(purls) : t >= NowAbs(pnow) + MaxOf(proute)

\* C10 (extent of the shortfall): every valid time of the planned lead
\* hours lies before the latest requested time, for every clock and route.
C10_AlwaysShort ==
    ppc = "route" /\ MaxOf(proute) >= 0 =>
        \A t \in ValidTimes(purls) : t < NowAbs(pnow) + MaxOf(proute)

====
